---- MODULE Spec2Model ----
(***************************************************************************)
(* CANdevStudio: the UsesBackend / WithBackend composition of backend.h.   *)
(*                                                                         *)
(* A facade (the "uses" part) is constructed through one of nine           *)
(* constructor forms.  Its constructor allocates the private               *)
(* implementation (the "with" part), which either creates and owns a       *)
(* backend (rep) or only references one passed in by the caller (handle).  *)
(* The model follows one facade at a time through overload selection,      *)
(* constructor delegation, member initialisation in declaration order,     *)
(* use and destruction, next to a caller that owns backends of its own.    *)
(*                                                                         *)
(* The main window of gui/mainwindow.cpp is a second state machine in the  *)
(* same module: the flow scene's node callbacks, the toolbar signals, the  *)
(* close event, and the save and load actions.  The older                  *)
(* UsesUIBackend / WithUIBackend pair of uibackend.h is a third: overload  *)
(* resolution among its three constructors, construction and destruction.  *)
(***************************************************************************)
EXTENDS Integers, Sequences, FiniteSets, TLC

\* ------------------------------------------------------------------ bounds
MaxArgs == 2            \* longest list of extra backend constructor arguments
MaxBackends == 3        \* backend objects ever allocated (caller's and owned)
MaxFacades == 2         \* facades constructed one after the other
MaxNodes == 1           \* nodes in the flow scene at one time

ArgVals == {7, 42}
Nil == 0                \* nullptr
Indet == -1             \* a pointer member that is not initialised yet

RECURSIVE SeqsUpTo(_)
SeqsUpTo(n) ==
    IF n = 0 THEN {<<>>}
    ELSE LET shorter == SeqsUpTo(n - 1)
         IN  shorter \cup { Append(s, v) : s \in {x \in shorter : Len(x) = n - 1}, v \in ArgVals }

ArgLists == SeqsUpTo(MaxArgs)

\* ------------------------------------------------------------- the types
\* Backend types: the Subject's default backend, a test double, and a type
\* that does not derive from BackendBase<Subject>.
DefaultBackend == "Default"
BackendTypes == {"Default", "Mock", "Alien"}

\* std::is_base_of<BackendBase<Subject>, T>
ImplementsInterface(T) == T \in {"Default", "Mock"}

\* The type of a constructor argument, after remove_reference: what the
\* traits of BackendTraits look at.
\*   shape    "selector": an instance of BackendSelectorTag, cv aside
\*            "lambda"  : a closure or function object
\*            "none"    : no argument in this position
\*   isConst  the argument's type is const-qualified (a constexpr object
\*            such as UIBackendSelector<T> bound to a forwarding reference)
\*   carries  the nested ::type of a selector
\*   invQ     callable with Derived&            (the facade)
\*   invD     callable with PrivateWithBackend& (the private implementation)
\*   effect   what calling it does
Desc(shape, isConst, carries, invQ, invD, effect) ==
    [shape |-> shape, isConst |-> isConst, carries |-> carries,
     invQ |-> invQ, invD |-> invD, effect |-> effect]

NoDesc == Desc("none", FALSE, "none", FALSE, FALSE, "noop")

\* [](Derived&){} and [](PrivateWithBackend&){}
NoopQ == Desc("lambda", FALSE, "none", TRUE, FALSE, "noop")
NoopD == Desc("lambda", FALSE, "none", FALSE, TRUE, "noop")
\* impl-targeted action: X = 1;  facade-targeted action: Y = impl()->X + 1
SetX == Desc("lambda", FALSE, "none", FALSE, TRUE, "setX")
ReadX == Desc("lambda", FALSE, "none", TRUE, FALSE, "readX")

\* A selector object: a temporary BackendSelectorTag<T>{} (not const) or the
\* constexpr object UIBackendSelector<T> (const).
Sel(T, isConst) == Desc("selector", isConst, T, FALSE, FALSE, "noop")
\* A selector type that also has a call operator taking either target.
CallableSel(T, isConst) == Desc("selector", isConst, T, TRUE, TRUE, "called")

Selectors == { Sel(T, c) : T \in BackendTypes, c \in BOOLEAN }
CallableSelectors == { CallableSel("Mock", c) : c \in BOOLEAN }
FacadeActions == {NoopQ, ReadX}
ImplActions == {NoopD, SetX}

\* const ImplSelector& deduces ImplSelector without the const.
DeducedFromConstRef(d) == [d EXCEPT !.isConst = FALSE]

\* --------------------------------------------------------- BackendTraits
\* is_selector<T>: only the partial specialisation for BackendSelectorTag<T>
\* itself is true; a cv-qualified selector type is another type and falls to
\* the primary template.
is_selector(T) == T.shape = "selector" /\ ~T.isConst

\* is_invocable<F, A&>
is_invocable(F, A) == IF A = "Derived" THEN F.invQ ELSE F.invD

\* is_init<A, F>: a selector is never an init action, otherwise invocability
\* decides.
is_init(A, F) ==
    IF is_selector(F) THEN FALSE
    ELSE IF is_invocable(F, A) THEN TRUE ELSE FALSE

\* UsesBackend::is_init_v / is_selector_v (remove_reference is already
\* applied in the descriptors).
is_init_v(A, F) == is_init(A, F)
is_selector_v(T) == is_selector(T)

\* UsesBackend::makeSelector<T>(): a temporary BackendSelectorTag<T>.
makeSelector(T) == Sel(T, FALSE)

\* ------------------------------------------------------- constructor calls
Forms == {"Default", "NonOwning", "ActionQ", "ActionD", "Selector",
          "Actions", "InitOnly", "Explicit", "Args"}

\* One constructor call: the form (the tag, or the untagged overloads) and
\* the arguments in the positions the form has.
\* A constructor call of a facade class whose PrivateWithBackend derives
\* from WithBackend (derivedPrivate); UnrelatedPrivate is the same call for a
\* facade class instantiated with a private type that does not.
Call(form, t, init, initMember, selector, ref, args) ==
    [form |-> form, t |-> t, init |-> init, initMember |-> initMember,
     selector |-> selector, ref |-> ref, args |-> args, derivedPrivate |-> TRUE]

UnrelatedPrivate(c) == [c EXCEPT !.derivedPrivate = FALSE]

NoCall == Call("none", NoDesc, NoDesc, NoDesc, NoDesc, Nil, <<>>)

\* The enable_if constraint of each constructor of UsesBackend.
CtorEnabled(c) ==
    CASE c.form = "Default"   -> TRUE
      [] c.form = "NonOwning" -> TRUE
      [] c.form = "ActionQ"   -> is_init_v("Derived", c.t)
      [] c.form = "ActionD"   -> is_init_v("Private", c.t)
      [] c.form = "Selector"  -> is_selector_v(c.t)
      [] c.form = "Actions"   -> /\ is_init_v("Derived", c.init)
                                 /\ is_init_v("Private", c.initMember)
      [] c.form = "InitOnly"  -> is_init_v("Derived", c.init)
      [] c.form = "Explicit"  -> /\ is_init_v("Derived", c.init)
                                 /\ is_init_v("Private", c.initMember)
                                 /\ is_selector_v(DeducedFromConstRef(c.selector))
      [] c.form = "Args"      -> TRUE
      [] OTHER                -> FALSE

\* The constructor each delegating constructor names in its initialiser list.
CtorDefault(c) ==
    Call("Explicit", NoDesc, NoopQ, NoopD, makeSelector(DefaultBackend), Nil, <<>>)

CtorNonOwning(c) ==
    Call("InitOnly", NoDesc, NoopQ, NoDesc, NoDesc, c.ref, <<>>)

CtorActionQ(c) ==
    Call("Explicit", NoDesc, c.t, NoopD, makeSelector(DefaultBackend), Nil, c.args)

CtorActionD(c) ==
    Call("Explicit", NoDesc, NoopQ, c.t, makeSelector(DefaultBackend), Nil, c.args)

\* (a variant that forgets the selector it was given)
CtorSelector_default(c) ==
    Call("Explicit", NoDesc, NoopQ, NoopD, makeSelector(DefaultBackend), Nil, c.args)

CtorSelector(c) ==
    Call("Explicit", NoDesc, NoopQ, NoopD, c.t, Nil, c.args)

CtorActions(c) ==
    Call("Explicit", NoDesc, c.init, c.initMember, makeSelector(DefaultBackend), Nil, c.args)

\* (a variant that forgets to forward the arguments)
CtorArgs_noargs(c) ==
    Call("Explicit", NoDesc, NoopQ, NoopD, makeSelector(DefaultBackend), Nil, <<>>)

CtorArgs(c) ==
    Call("Explicit", NoDesc, NoopQ, NoopD, makeSelector(DefaultBackend), Nil, c.args)

\* Init-only and Explicit delegate to nobody: they initialise the members.
Delegates(form) == form \notin {"InitOnly", "Explicit"}

DelegateTarget(c) ==
    CASE c.form = "Default"   -> CtorDefault(c)
      [] c.form = "NonOwning" -> CtorNonOwning(c)
      [] c.form = "ActionQ"   -> CtorActionQ(c)
      [] c.form = "ActionD"   -> CtorActionD(c)
      [] c.form = "Selector"  -> CtorSelector(c)
      [] c.form = "Actions"   -> CtorActions(c)
      [] c.form = "Args"      -> CtorArgs(c)
      [] OTHER                -> c

\* The constructor of WithBackend that new PrivateWithBackend{...} selects:
\* Explicit passes (initMember, selector, *this, args...), Init-only passes
\* (*this, backend), which the two-argument constructor forwards with a
\* no-op action to the borrowing constructor.
WithCtorEnabled(c) ==
    IF c.form = "Explicit"
    THEN /\ is_init_v("Private", c.initMember)
         /\ is_selector_v(DeducedFromConstRef(c.selector))
    ELSE TRUE

\* (a variant of the owning constructor without its static_assert)
WithStaticAssert_none(c) == TRUE

\* static_assert(is_base_of<BackendBase<Subject>, ImplSelector::type>)
WithStaticAssert(c) ==
    c.form = "Explicit" => ImplementsInterface(c.selector.carries)

\* (a variant of UsesBackend without its static_assert)
UsesStaticAssert_none(c) == TRUE

\* static_assert(is_base_of<WithBackend<PrivateWithBackend, ...>, PrivateWithBackend>)
UsesStaticAssert(c) == c.derivedPrivate

\* (a variant that forgets to forward initMember)
WithInit_dropped(c) == NoopD

\* The init action the private implementation is constructed with.
WithInit(c) == IF c.form = "Explicit" THEN c.initMember ELSE NoopD

\* ------------------------------------------------------------------ state
VARIABLES
    pc,          \* where the single thread is
    call,        \* the constructor call as the caller wrote it
    cur,         \* the constructor currently entered (after delegation)
    chain,       \* the constructor forms entered so far, in order
    facade,      \* the "uses" object: id, stored init action, d_ptr, Y
    priv,        \* the "with" object: state, stored init action, rep, handle, q_ptr, X
    heap,        \* the backend objects
    callerHolds, \* backends the caller created and has not deleted
    nFacades,    \* facades whose lifetime has ended
    order,       \* the init actions run for the current facade, in order
    fault        \* a failed assertion or a use of a dead object

backendVars == <<pc, call, cur, chain, facade, priv, heap, callerHolds, nFacades,
                 order, fault>>

BackendIds == 1 .. MaxBackends

\* The main window (gui/mainwindow.cpp).
VARIABLES
    graphScene,  \* the nodes of the flow scene, each with its main widget
    disk,        \* the files the save and load actions can name
    enabled,     \* whether ui->actionstart and ui->actionstop are enabled
    lastTrigger, \* the toolbar action triggered last, and its argument
    app,         \* "none" before the main window is constructed, "running",
                 \* "quit" after QApplication::quit(), "crashed"
    last         \* the handler that ran last, its inputs and what it did

mainWindowVars == <<graphScene, disk, enabled, lastTrigger, app, last>>


NodeIds == 1 .. MaxNodes
ModelKinds == {"view", "sender", "device"}

\* A node of the scene and the main widget of its component:
\*   kind    the node's data model (CanRawViewModel, CanRawSenderModel,
\*           CanDeviceModel), "none" where the scene has no node
\*   parent  widget->parentWidget() is not null
\*   docked  mdiArea->subWindowList() contains the parent
\*   sub     the sub-window made for the widget last: "none", "hidden",
\*           "shown" or "closed"
\*   shown   the widget is shown as a window of its own
\*   dockSignals  the number of dockUndock signals handled for the widget
\*           since nodeCreatedCallback added it, modulo 2
NoNode == [kind |-> "none", parent |-> FALSE, docked |-> FALSE, sub |-> "none",
           shown |-> FALSE, dockSignals |-> 0]

\* File names are sequences of characters.
DotCds == <<".", "c", "d", "s">>
NameA == <<"a">>
NameACds == <<"a", ".", "c", "d", "s">>
NameRo == <<"r", "o">>
NameRoCds == <<"r", "o", ".", "c", "d", "s">>
NameRoUpper == <<"r", "o", ".", "C", "D", "S">>
NameRoMixed == <<"r", "o", ".", "C", "d", "s">>
NameOk == <<"o", "k", ".", "c", "d", "s">>
NameLocked == <<"l", "k", ".", "c", "d", "s">>
NameBad == <<"b", "a", "d", ".", "c", "d", "s">>

\* What QFileDialog::getSaveFileName and getOpenFileName can return; the
\* empty name is a cancelled dialog.
SaveNames == {<<>>, NameA, NameACds, NameRo, NameRoUpper, NameRoMixed}
LoadNames == {<<>>, NameACds, NameRoCds, NameOk, NameLocked, NameBad}

\* The files: "a.cds" can be created and written, "ro..." is in a place
\* where no file can be opened for writing, "lk.cds" exists but cannot be
\* read, "bad.cds" does not hold a scene.
Files == {NameACds, NameRoCds, NameRoUpper, NameRoMixed, NameOk, NameLocked, NameBad}
WritableFiles == {NameACds}

File(exists, readable, valid, scene) ==
    [exists |-> exists, readable |-> readable, valid |-> valid, scene |-> scene]
Absent == File(FALSE, FALSE, FALSE, <<>>)

InitialDisk ==
    [f \in Files |->
        IF f = NameOk THEN File(TRUE, TRUE, TRUE, <<"view">>)
        ELSE IF f = NameLocked THEN File(TRUE, FALSE, TRUE, <<>>)
        ELSE IF f = NameBad THEN File(TRUE, TRUE, FALSE, <<>>)
        ELSE Absent]

NoLast ==
    [op |-> "none", node |-> Nil, kind |-> "none", handlers |-> <<>>, closed |-> FALSE,
     errors |-> <<>>, fileName |-> <<>>, target |-> <<>>, wrote |-> FALSE,
     loaded |-> FALSE, before |-> <<>>, reply |-> "none", ignored |-> FALSE]

NoTrigger == [action |-> "none", checked |-> FALSE]

\* No main window yet.
InitMainWindow ==
    /\ graphScene = [n \in NodeIds |-> NoNode]
    /\ disk = InitialDisk
    /\ enabled = [a \in {"actionstart", "actionstop"} |-> TRUE]
    /\ lastTrigger = NoTrigger
    /\ app = "none"
    /\ last = NoLast

\* UsesUIBackend / WithUIBackend (common/uibackend.h).
VARIABLES
    uiPc,        \* where the construction of the UI facade is
    uiCall,      \* the constructor arguments as the caller wrote them
    uiCur,       \* the arguments of the constructor currently considered
    uiChain,     \* the constructors of UsesUIBackend entered so far
    uiPriv,      \* the WithUIBackend object: uiRep, uiHandle, q_ptr
    uiHeap,      \* the UI backend objects
    uiHolds      \* UI backends the caller created and has not deleted

uiBackendVars == <<uiPc, uiCall, uiCur, uiChain, uiPriv, uiHeap, uiHolds>>

NoUIPriv == [uiRep |-> Indet, uiHandle |-> Indet, q_ptr |-> Indet]
UIUnused == [state |-> "unused", type |-> "none", owner |-> "none", from |-> Nil]

InitUIBackend ==
    /\ uiPc = "idle"
    /\ uiCall = <<>>
    /\ uiCur = <<>>
    /\ uiChain = <<>>
    /\ uiPriv = NoUIPriv
    /\ uiHeap = [b \in BackendIds |-> UIUnused]
    /\ uiHolds = {}

guiVars == <<mainWindowVars, uiBackendVars>>
vars == <<backendVars, guiVars>>

NoFacade == [id |-> Nil, init |-> NoDesc, d_ptr |-> Indet, Y |-> 0]
NoPriv == [state |-> "none", id |-> Nil, init |-> NoDesc, rep |-> Indet,
           handle |-> Indet, q_ptr |-> Indet, X |-> 0]
Unused == [state |-> "unused", type |-> "none", args |-> <<>>, owner |-> "none", frees |-> 0]

Init ==
    /\ pc = "idle"
    /\ call = NoCall
    /\ cur = NoCall
    /\ chain = <<>>
    /\ facade = NoFacade
    /\ priv = NoPriv
    /\ heap = [b \in BackendIds |-> Unused]
    /\ callerHolds = {}
    /\ nFacades = 0
    /\ order = <<>>
    /\ fault = "none"
    /\ InitMainWindow
    /\ InitUIBackend

FreeIds == { b \in BackendIds : heap[b].state = "unused" }
NewId == CHOOSE b \in FreeIds : \A o \in FreeIds : b <= o

\* operator new and the constructor of a backend of type T
Allocate(h, b, T, args, owner) ==
    [h EXCEPT ![b] = [state |-> "alive", type |-> T, args |-> args,
                      owner |-> owner, frees |-> 0]]

\* operator delete
Release(h, b) ==
    [h EXCEPT ![b] = [state |-> "freed", type |-> "none", args |-> <<>>,
                      owner |-> h[b].owner, frees |-> h[b].frees + 1]]

\* ------------------------------------------------------------- the caller
\* The caller creates a backend of its own (the test double to inject).
CallerNew ==
    /\ pc \in {"idle", "usable"}
    /\ FreeIds # {}
    /\ heap' = Allocate(heap, NewId, "Mock", <<>>, "caller")
    /\ callerHolds' = callerHolds \cup {NewId}
    /\ UNCHANGED <<pc, call, cur, chain, facade, priv, nFacades, order, fault>>
    /\ UNCHANGED guiVars

\* The caller uses one of its backends.
CallerUse(b) ==
    /\ pc \in {"idle", "usable"}
    /\ b \in callerHolds
    /\ fault' = IF heap[b].state = "alive" THEN fault ELSE "dangling"
    /\ UNCHANGED <<pc, call, cur, chain, facade, priv, heap, callerHolds, nFacades, order>>
    /\ UNCHANGED guiVars

\* The caller deletes one of its backends; it keeps a backend alive for as
\* long as a private implementation references it.
CallerDelete(b) ==
    /\ pc \in {"idle", "usable"}
    /\ b \in callerHolds
    /\ ~(priv.state # "none" /\ priv.handle = b)
    /\ heap' = Release(heap, b)
    /\ callerHolds' = callerHolds \ {b}
    /\ UNCHANGED <<pc, call, cur, chain, facade, priv, nFacades, order, fault>>
    /\ UNCHANGED guiVars

\* ---------------------------------------------------- the calls considered
TSlot == FacadeActions \cup ImplActions \cup CallableSelectors
            \cup {Sel("Mock", FALSE), Sel("Mock", TRUE)}
SelSlot == Selectors \cup CallableSelectors \cup {NoopQ}

\* One call of each form that builds when the private type is as required.
PlainCalls ==
    {Call("Default", NoDesc, NoDesc, NoDesc, NoDesc, Nil, <<>>),
     Call("ActionQ", ReadX, NoDesc, NoDesc, NoDesc, Nil, <<>>),
     Call("ActionD", SetX, NoDesc, NoDesc, NoDesc, Nil, <<>>),
     Call("Selector", Sel("Mock", FALSE), NoDesc, NoDesc, NoDesc, Nil, <<>>),
     Call("Actions", NoDesc, ReadX, SetX, NoDesc, Nil, <<>>),
     Call("Explicit", NoDesc, ReadX, SetX, Sel("Mock", FALSE), Nil, <<>>),
     Call("Args", NoDesc, NoDesc, NoDesc, NoDesc, Nil, <<42>>)}
    \cup { Call("NonOwning", NoDesc, NoDesc, NoDesc, NoDesc, b, <<>>) : b \in callerHolds }
    \cup { Call("InitOnly", NoDesc, ReadX, NoDesc, NoDesc, b, <<>>) : b \in callerHolds }

Calls ==
    {Call("Default", NoDesc, NoDesc, NoDesc, NoDesc, Nil, <<>>)}
    \cup { Call("NonOwning", NoDesc, NoDesc, NoDesc, NoDesc, b, <<>>) : b \in callerHolds }
    \cup { Call(f, t, NoDesc, NoDesc, NoDesc, Nil, a) :
             f \in {"ActionQ", "ActionD"}, t \in TSlot, a \in ArgLists }
    \cup { Call("Selector", t, NoDesc, NoDesc, NoDesc, Nil, a) : t \in SelSlot, a \in ArgLists }
    \cup { Call("Actions", NoDesc, i, m, NoDesc, Nil, a) :
             i \in FacadeActions \cup {Sel("Mock", FALSE)},
             m \in ImplActions \cup {Sel("Mock", FALSE)}, a \in ArgLists }
    \cup { Call("InitOnly", NoDesc, i, NoDesc, NoDesc, b, <<>>) :
             i \in FacadeActions \cup {Sel("Mock", FALSE)}, b \in callerHolds }
    \cup { Call("Explicit", NoDesc, i, m, s, Nil, a) :
             i \in FacadeActions, m \in ImplActions,
             s \in Selectors \cup {NoopQ}, a \in ArgLists }
    \cup { Call("Args", NoDesc, NoDesc, NoDesc, NoDesc, Nil, a) : a \in ArgLists }
    \cup { UnrelatedPrivate(c) : c \in PlainCalls }

\* ------------------------------------------------------------ construction
\* A facade object is declared with constructor call c.
Construct(c) ==
    /\ pc = "idle"
    /\ nFacades < MaxFacades
    /\ FreeIds # {} \/ c.form \in {"NonOwning", "InitOnly"}
    /\ pc' = "select"
    /\ call' = c
    /\ cur' = c
    /\ chain' = <<c.form>>
    /\ facade' = [NoFacade EXCEPT !.id = nFacades + 1]
    /\ order' = <<>>
    /\ UNCHANGED <<priv, heap, callerHolds, nFacades, fault>>
    /\ UNCHANGED guiVars

\* The caller declares a facade with one of the calls considered.
DeclareFacade == pc = "idle" /\ \E c \in Calls : Construct(c)

\* Everything the compiler checks for the constructor entered.
WellFormed(c) ==
    /\ UsesStaticAssert(c)
    /\ CtorEnabled(c)
    /\ ~Delegates(c.form) => (WithCtorEnabled(c) /\ WithStaticAssert(c))

\* No viable constructor, or a failed static_assert: the call does not build.
Reject ==
    /\ pc = "select"
    /\ ~WellFormed(cur)
    /\ pc' = "rejected"
    /\ facade' = NoFacade
    /\ UNCHANGED <<call, cur, chain, priv, heap, callerHolds, nFacades, order, fault>>
    /\ UNCHANGED guiVars

\* A delegating constructor enters the constructor it names.
Delegate ==
    /\ pc = "select"
    /\ WellFormed(cur)
    /\ Delegates(cur.form)
    /\ cur' = DelegateTarget(cur)
    /\ chain' = Append(chain, DelegateTarget(cur).form)
    /\ UNCHANGED <<pc, call, facade, priv, heap, callerHolds, nFacades, order, fault>>
    /\ UNCHANGED guiVars

\* The constructor entered initialises the members itself.  First the base
\* WithExplicitInit<Derived> stores the facade-targeted action.
FacadeInit(c) == c.init

StoreFacadeInit ==
    /\ pc = "select"
    /\ WellFormed(cur)
    /\ ~Delegates(cur.form)
    /\ facade' = [facade EXCEPT !.init = FacadeInit(cur)]
    /\ pc' = "new_priv"
    /\ UNCHANGED <<call, cur, chain, priv, heap, callerHolds, nFacades, order, fault>>
    /\ UNCHANGED guiVars

\* new PrivateWithBackend{...}: storage, then the base WithExplicitInit of
\* the private implementation stores the impl-targeted action.
AllocPriv ==
    /\ pc = "new_priv"
    /\ priv' = [NoPriv EXCEPT !.state = "constructing", !.id = facade.id,
                              !.init = WithInit(cur)]
    /\ pc' = "rep"
    /\ UNCHANGED <<call, cur, chain, facade, heap, callerHolds, nFacades, order, fault>>
    /\ UNCHANGED guiVars

\* Does the constructor of WithBackend entered create the backend?
Owning(c) == c.form = "Explicit"

\* rep{std::make_unique<ImplSelector::type>(args...)}: the backend is created
\* with the forwarded arguments.  The borrowing constructor leaves rep empty.
MadeType(c) == c.selector.carries
MadeArgs(c) == c.args

\* (a variant in which the borrowing constructor hands the backend to rep)
RepInit_adopts(c) == IF Owning(c) THEN NewId ELSE c.ref

\* What rep holds once it is initialised.
RepInit(c) == IF Owning(c) THEN NewId ELSE Nil

InitRep ==
    /\ pc = "rep"
    /\ heap' = IF Owning(cur)
               THEN Allocate(heap, NewId, MadeType(cur), MadeArgs(cur), "rep")
               ELSE heap
    /\ priv' = [priv EXCEPT !.rep = RepInit(cur)]
    /\ pc' = "handle"
    /\ UNCHANGED <<call, cur, chain, facade, callerHolds, nFacades, order, fault>>
    /\ UNCHANGED guiVars

\* (a variant in which the private implementation's storage is kept when
\* its constructor throws)
PrivAfterThrow_leak(p) == p

\* The private implementation once an exception has left its constructor:
\* the new-expression has released the storage.
PrivAfterThrow(p) == NoPriv

\* The backend's constructor throws: make_unique releases the backend's
\* storage, the base of the private implementation is destroyed and the
\* new-expression releases the private implementation's storage.
InitRepThrows ==
    /\ pc = "rep"
    /\ Owning(cur)
    /\ priv' = PrivAfterThrow(priv)
    /\ pc' = "unwind"
    /\ UNCHANGED <<call, cur, chain, facade, heap, callerHolds, nFacades, order, fault>>
    /\ UNCHANGED guiVars

\* The exception leaves the facade's constructor: its base is destroyed.
UnwindFacade ==
    /\ pc = "unwind"
    /\ facade' = NoFacade
    /\ pc' = "failed"
    /\ UNCHANGED <<call, cur, chain, priv, heap, callerHolds, nFacades, order, fault>>
    /\ UNCHANGED guiVars

\* (a variant in which handle is still not initialised when EXPLICIT_INIT runs)
HandleInit_unset(c, p) == Indet

\* (a variant in which the borrowing constructor leaves handle null)
HandleInit_forgot(c, p) == IF Owning(c) THEN p.rep ELSE Nil

\* handle{rep.get()} or handle{&backend}
HandleInit(c, p) == IF Owning(c) THEN p.rep ELSE c.ref

InitHandle ==
    /\ pc = "handle"
    /\ priv' = [priv EXCEPT !.handle = HandleInit(cur, priv)]
    /\ pc' = "q_ptr"
    /\ UNCHANGED <<call, cur, chain, facade, heap, callerHolds, nFacades, order, fault>>
    /\ UNCHANGED guiVars

\* (a variant that leaves q_ptr null)
QPtrInit_null(f) == Nil

\* q_ptr{&user}
QPtrInit(f) == f.id

InitQPtr ==
    /\ pc = "q_ptr"
    /\ priv' = [priv EXCEPT !.q_ptr = QPtrInit(facade)]
    /\ pc' = "d_init"
    /\ UNCHANGED <<call, cur, chain, facade, heap, callerHolds, nFacades, order, fault>>
    /\ UNCHANGED guiVars

\* WithBackend::backend(): the assertion, then the dereference.
backendFault(p) ==
    IF p.handle = Nil THEN "assert"
    ELSE IF p.handle \notin BackendIds \/ heap[p.handle].state # "alive" THEN "dangling"
    ELSE "none"

\* EXPLICIT_INIT, the last member of the private class: the stored action
\* runs on the private implementation.
RunPrivInit ==
    /\ pc = "d_init"
    /\ priv' = [priv EXCEPT !.state = "live",
                            !.X = IF priv.init.effect = "setX" THEN 1 ELSE @]
    /\ order' = Append(order, "impl")
    /\ pc' = "d_ptr"
    /\ UNCHANGED <<call, cur, chain, facade, heap, callerHolds, nFacades, fault>>
    /\ UNCHANGED guiVars

\* d_ptr{new PrivateWithBackend{...}}: the new-expression's value.
InitDPtr ==
    /\ pc = "d_ptr"
    /\ facade' = [facade EXCEPT !.d_ptr = priv.id]
    /\ pc' = "q_init"
    /\ UNCHANGED <<call, cur, chain, priv, heap, callerHolds, nFacades, order, fault>>
    /\ UNCHANGED guiVars

\* UsesBackend::impl() dereferenced
implLive(f) == f.d_ptr # Nil /\ f.d_ptr = priv.id /\ priv.state = "live"

\* EXPLICIT_INIT, the last member of the facade class: the stored action
\* runs on the facade.
RunFacadeInit ==
    /\ pc = "q_init"
    /\ IF facade.init.effect = "readX"
       THEN IF implLive(facade)
            THEN facade' = [facade EXCEPT !.Y = priv.X + 1] /\ fault' = fault
            ELSE facade' = facade /\ fault' = "dangling"
       ELSE facade' = facade /\ fault' = fault
    /\ order' = Append(order, "facade")
    /\ pc' = "usable"
    /\ UNCHANGED <<call, cur, chain, priv, heap, callerHolds, nFacades>>
    /\ UNCHANGED guiVars

\* ------------------------------------------------------------------- use
\* impl()->backend().op(), as the node callbacks of MainWindow do.
UseBackend ==
    /\ pc = "usable"
    /\ fault' = IF backendFault(priv) # "none" THEN backendFault(priv) ELSE fault
    /\ UNCHANGED <<pc, call, cur, chain, facade, priv, heap, callerHolds, nFacades, order>>
    /\ UNCHANGED guiVars

\* ------------------------------------------------------------ destruction
\* The facade goes out of scope: ~QScopedPointer deletes the private part.
Destroy ==
    /\ pc = "usable"
    /\ priv' = [priv EXCEPT !.state = "destroying"]
    /\ pc' = "del_rep"
    /\ UNCHANGED <<call, cur, chain, facade, heap, callerHolds, nFacades, order, fault>>
    /\ UNCHANGED guiVars

\* (variants: delete performed on handle; rep kept as a raw pointer)
Deleted_handle(p) == p.handle
Deleted_none(p) == Nil

\* ~unique_ptr of rep deletes what rep holds; handle is never deleted.
Deleted(p) == p.rep

DestroyRep ==
    /\ pc = "del_rep"
    /\ heap' = IF Deleted(priv) \in BackendIds THEN Release(heap, Deleted(priv)) ELSE heap
    /\ priv' = [priv EXCEPT !.rep = Nil]
    /\ pc' = "free_priv"
    /\ UNCHANGED <<call, cur, chain, facade, callerHolds, nFacades, order, fault>>
    /\ UNCHANGED guiVars

\* operator delete of the private implementation
FreePriv ==
    /\ pc = "free_priv"
    /\ priv' = NoPriv
    /\ facade' = [facade EXCEPT !.d_ptr = Nil]
    /\ pc' = "q_gone"
    /\ UNCHANGED <<call, cur, chain, heap, callerHolds, nFacades, order, fault>>
    /\ UNCHANGED guiVars

\* The facade's own storage ends.
FacadeGone ==
    /\ pc = "q_gone"
    /\ facade' = NoFacade
    /\ nFacades' = nFacades + 1
    /\ pc' = "idle"
    /\ call' = NoCall
    /\ cur' = NoCall
    /\ chain' = <<>>
    /\ order' = <<>>
    /\ UNCHANGED <<priv, heap, callerHolds, fault>>
    /\ UNCHANGED guiVars

\* A call that did not build, or whose backend threw, is given up.
Abandon ==
    /\ pc \in {"rejected", "failed"}
    /\ nFacades' = nFacades + 1
    /\ pc' = "idle"
    /\ call' = NoCall
    /\ cur' = NoCall
    /\ chain' = <<>>
    /\ order' = <<>>
    /\ UNCHANGED <<facade, priv, heap, callerHolds, fault>>
    /\ UNCHANGED guiVars

Next ==
    \/ CallerNew
    \/ \E b \in BackendIds : CallerUse(b)
    \/ \E b \in BackendIds : CallerDelete(b)
    \/ DeclareFacade
    \/ Reject
    \/ Delegate
    \/ StoreFacadeInit
    \/ AllocPriv
    \/ InitRep
    \/ InitRepThrows
    \/ UnwindFacade
    \/ InitHandle
    \/ InitQPtr
    \/ RunPrivInit
    \/ InitDPtr
    \/ RunFacadeInit
    \/ UseBackend
    \/ Destroy
    \/ DestroyRep
    \/ FreePriv
    \/ FacadeGone
    \/ Abandon

Spec == Init /\ [][Next]_vars

\* ============================================================ main window
\* Everything that is not the main window's.
nonMainWindowVars == <<backendVars, uiBackendVars>>

\* MainWindow::MainWindow: setupUi sets the toolbar actions as the .ui file
\* says, the scene is created empty and the signals are connected.
MainWindowCtor ==
    /\ app = "none"
    /\ app' = "running"
    /\ enabled' \in [{"actionstart", "actionstop"} -> BOOLEAN]
    /\ graphScene' = [n \in NodeIds |-> NoNode]
    /\ last' = NoLast
    /\ UNCHANGED <<disk, lastTrigger>>
    /\ UNCHANGED nonMainWindowVars

\* ------------------------------------------------------------ close event
\* (a variant that quits unless the answer is No)
Quits_unlessNo(userReply) == userReply # "No"

\* userReply == QMessageBox::Yes
Quits(userReply) == userReply = "Yes"

\* The values QMessageBox::question can return here.
Replies == {"Yes", "No", "NoButton"}

closeEvent(userReply) ==
    /\ app = "running"
    /\ app' = IF Quits(userReply) THEN "quit" ELSE app
    /\ last' = [NoLast EXCEPT !.op = "close", !.reply = userReply,
                              !.ignored = ~Quits(userReply)]
    /\ UNCHANGED <<graphScene, disk, enabled, lastTrigger>>
    /\ UNCHANGED nonMainWindowVars

\* ---------------------------------------------------------- node callbacks
\* QMdiArea::addSubWindow(widget): a new sub-window becomes the widget's
\* parent and is listed by the area; it is not shown until show() is called.
addSubWindow(w) ==
    [w EXCEPT !.parent = TRUE, !.docked = TRUE, !.sub = "hidden", !.shown = FALSE]

\* apply_model_visitor(model, h1, h2, h3): the position of the handler that
\* runs, among (CanRawViewModel&), (CanRawSenderModel&), (CanDeviceModel&).
apply_model_visitor(kind) ==
    CASE kind = "view" -> 1
      [] kind = "sender" -> 2
      [] kind = "device" -> 3

nodeCreatedCallback(w) ==
    LET h == apply_model_visitor(w.kind)
    IN  IF h = 1 THEN addSubWindow(w)
        ELSE IF h = 2 THEN addSubWindow(w)
        ELSE w

handleWidgetDeletion(w) == IF w.parent THEN [w EXCEPT !.sub = "closed"] ELSE w

nodeDeletedCallback(w) ==
    LET h == apply_model_visitor(w.kind)
    IN  IF h = 1 THEN handleWidgetDeletion(w)
        ELSE IF h = 2 THEN handleWidgetDeletion(w)
        ELSE w

\* (a variant that always shows the widget itself)
handleWidgetShowing_widget(w) == [w EXCEPT !.shown = TRUE]

handleWidgetShowing(w) ==
    IF w.parent THEN [w EXCEPT !.sub = "shown"] ELSE [w EXCEPT !.shown = TRUE]

nodeDoubleClickedCallback(w) ==
    LET h == apply_model_visitor(w.kind)
    IN  IF h = 1 THEN handleWidgetShowing(w)
        ELSE IF h = 2 THEN handleWidgetShowing(w)
        ELSE w

\* undock: removeSubWindow(component) takes the widget out of its
\* sub-window, the widget is shown and the old sub-window closed;
\* dock: addSubWindow(component)->show().
\* (a variant whose undock branch leaves the widget in its sub-window)
handleDock_keeps(w) ==
    IF w.docked
    THEN [w EXCEPT !.shown = TRUE]
    ELSE [addSubWindow(w) EXCEPT !.sub = "shown"]

handleDock(w) ==
    IF w.docked
    THEN [w EXCEPT !.parent = FALSE, !.docked = FALSE, !.shown = TRUE, !.sub = "closed"]
    ELSE [addSubWindow(w) EXCEPT !.sub = "shown"]

\* The scene creates node n with a model of kind k and emits nodeCreated.
NodeCreated(n, k) ==
    /\ app = "running"
    /\ graphScene[n].kind = "none"
    /\ graphScene' = [graphScene EXCEPT ![n] = nodeCreatedCallback([NoNode EXCEPT !.kind = k])]
    /\ last' = [NoLast EXCEPT !.op = "created", !.node = n, !.kind = k,
                              !.handlers = <<apply_model_visitor(k)>>]
    /\ UNCHANGED <<disk, enabled, lastTrigger, app>>
    /\ UNCHANGED nonMainWindowVars

\* The scene emits nodeDeleted for node n and then removes it.
NodeDeleted(n) ==
    /\ app = "running"
    /\ graphScene[n].kind # "none"
    /\ graphScene' = [graphScene EXCEPT ![n] = NoNode]
    /\ last' = [NoLast EXCEPT !.op = "deleted", !.node = n, !.kind = graphScene[n].kind,
                              !.handlers = <<apply_model_visitor(graphScene[n].kind)>>,
                              !.closed = (nodeDeletedCallback(graphScene[n]).sub = "closed"
                                            /\ graphScene[n].sub # "closed")]
    /\ UNCHANGED <<disk, enabled, lastTrigger, app>>
    /\ UNCHANGED nonMainWindowVars

\* The scene emits nodeDoubleClicked for node n.
NodeDoubleClicked(n) ==
    /\ app = "running"
    /\ graphScene[n].kind # "none"
    /\ graphScene' = [graphScene EXCEPT ![n] = nodeDoubleClickedCallback(@)]
    /\ last' = [NoLast EXCEPT !.op = "clicked", !.node = n, !.kind = graphScene[n].kind,
                              !.handlers = <<apply_model_visitor(graphScene[n].kind)>>]
    /\ UNCHANGED <<disk, enabled, lastTrigger, app>>
    /\ UNCHANGED nonMainWindowVars

\* The component of node n emits dockUndock (connected in nodeCreatedCallback).
DockUndock(n) ==
    /\ app = "running"
    /\ graphScene[n].kind \in {"view", "sender"}
    /\ graphScene' = [graphScene EXCEPT
                        ![n] = [handleDock(@) EXCEPT !.dockSignals = (@ + 1) % 2]]
    /\ last' = [NoLast EXCEPT !.op = "dock", !.node = n, !.kind = graphScene[n].kind]
    /\ UNCHANGED <<disk, enabled, lastTrigger, app>>
    /\ UNCHANGED nonMainWindowVars

\* ---------------------------------------------------------------- toolbar
\* QAction::setEnabled(bool)
setEnabled(e, a, b) == [e EXCEPT ![a] = b]

\* (a variant of setDisabled that enables on true)
setDisabled_same(e, a, b) == [e EXCEPT ![a] = b]

\* QAction::setDisabled(bool)
setDisabled(e, a, b) == [e EXCEPT ![a] = ~b]

\* The slots connected to actionstart's and to actionstop's triggered(bool),
\* in connection order.  (The components' startSimulation and
\* stopSimulation slots are connected as well; their state is the
\* components'.)
onStartTriggered(e, checked) ==
    setEnabled(setDisabled(e, "actionstop", checked), "actionstart", checked)

onStopTriggered(e, checked) ==
    setDisabled(setEnabled(e, "actionstop", checked), "actionstart", checked)

StartTriggered(checked) ==
    /\ app = "running"
    /\ enabled' = onStartTriggered(enabled, checked)
    /\ lastTrigger' = [action |-> "actionstart", checked |-> checked]
    /\ last' = [NoLast EXCEPT !.op = "start"]
    /\ UNCHANGED <<graphScene, disk, app>>
    /\ UNCHANGED nonMainWindowVars

StopTriggered(checked) ==
    /\ app = "running"
    /\ enabled' = onStopTriggered(enabled, checked)
    /\ lastTrigger' = [action |-> "actionstop", checked |-> checked]
    /\ last' = [NoLast EXCEPT !.op = "stop"]
    /\ UNCHANGED <<graphScene, disk, app>>
    /\ UNCHANGED nonMainWindowVars

\* ---------------------------------------------------------- save and load
\* QChar::toLower, on the characters used here
toLower(ch) ==
    CASE ch = "C" -> "c"
      [] ch = "D" -> "d"
      [] ch = "S" -> "s"
      [] OTHER -> ch

\* (a variant that compares case-sensitively)
endsWith_sensitive(str, suffix) ==
    /\ Len(str) >= Len(suffix)
    /\ \A i \in 1 .. Len(suffix) : str[Len(str) - Len(suffix) + i] = suffix[i]

\* QString::endsWith(suffix, Qt::CaseInsensitive)
endsWith(str, suffix) ==
    /\ Len(str) >= Len(suffix)
    /\ \A i \in 1 .. Len(suffix) :
          toLower(str[Len(str) - Len(suffix) + i]) = toLower(suffix[i])

\* The name handleSaveAction gives to QFile.
SaveTarget(fileName) ==
    IF ~endsWith(fileName, DotCds) THEN fileName \o DotCds ELSE fileName

\* QFile::open(QIODevice::WriteOnly), QFileInfo::exists,
\* QFile::open(QIODevice::ReadOnly)
OpensForWriting(f) == f \in WritableFiles
Exists(d, f) == f \in Files /\ d[f].exists
OpensForReading(d, f) == Exists(d, f) /\ d[f].readable

\* FlowScene::saveToMemory: the models of the nodes, in order.
IsModel(k) == k # "none"
saveToMemory(scene) == SelectSeq([n \in NodeIds |-> scene[n].kind], IsModel)

\* FlowScene::clearScene: every node is deleted (nodeDeleted is emitted for
\* each, then the node is removed).
clearScene(scene) == [n \in NodeIds |-> NoNode]

\* FlowScene::loadFromMemory on a cleared scene: every stored node is
\* created and nodeCreated is emitted for it.
loadFromMemory(bytes) ==
    [n \in NodeIds |->
        IF n <= Len(bytes) THEN nodeCreatedCallback([NoNode EXCEPT !.kind = bytes[n]])
        ELSE NoNode]

\* cds_error(message)
cds_error(l, message) == [l EXCEPT !.errors = Append(@, message)]

handleSaveAction(fileName) ==
    /\ app = "running"
    /\ IF fileName # <<>>
       THEN LET target == SaveTarget(fileName)
            IN  IF OpensForWriting(target)
                THEN /\ disk' = [disk EXCEPT ![target] =
                                    File(TRUE, TRUE, TRUE, saveToMemory(graphScene))]
                     /\ last' = [NoLast EXCEPT !.op = "save", !.fileName = fileName,
                                               !.target = target, !.wrote = TRUE]
                ELSE /\ disk' = disk
                     /\ last' = [NoLast EXCEPT !.op = "save", !.fileName = fileName,
                                               !.target = target]
       ELSE /\ disk' = disk
            /\ last' = cds_error([NoLast EXCEPT !.op = "save"], "File name empty")
    /\ UNCHANGED <<graphScene, enabled, lastTrigger, app>>
    /\ UNCHANGED nonMainWindowVars

handleLoadAction(fileName) ==
    /\ app = "running"
    /\ LET before == [NoLast EXCEPT !.op = "load", !.fileName = fileName,
                                    !.before = saveToMemory(graphScene)]
           cleared == clearScene(graphScene)
       IN  IF ~Exists(disk, fileName)
           THEN /\ last' = cds_error(before, "File does not exist")
                /\ graphScene' = cleared
                /\ app' = app
           ELSE IF ~OpensForReading(disk, fileName)
           THEN /\ last' = cds_error(before, "Could not open file")
                /\ graphScene' = cleared
                /\ app' = app
           ELSE IF ~disk[fileName].valid
           THEN /\ last' = before
                /\ graphScene' = cleared
                /\ app' = "crashed"
           ELSE /\ last' = [before EXCEPT !.loaded = TRUE]
                /\ graphScene' = loadFromMemory(disk[fileName].scene)
                /\ app' = app
    /\ UNCHANGED <<disk, enabled, lastTrigger>>
    /\ UNCHANGED nonMainWindowVars

NextMainWindow ==
    \/ MainWindowCtor
    \/ \E r \in Replies : closeEvent(r)
    \/ \E n \in NodeIds, k \in ModelKinds : NodeCreated(n, k)
    \/ \E n \in NodeIds : NodeDeleted(n)
    \/ \E n \in NodeIds : NodeDoubleClicked(n)
    \/ \E n \in NodeIds : DockUndock(n)
    \/ \E c \in BOOLEAN : StartTriggered(c)
    \/ \E c \in BOOLEAN : StopTriggered(c)
    \/ \E f \in SaveNames : handleSaveAction(f)
    \/ \E f \in LoadNames : handleLoadAction(f)

SpecMainWindow == Init /\ [][NextMainWindow]_vars

\* ============================================================= UI backend
\* Everything that is not the UI backend pair's.
nonUIBackendVars == <<backendVars, mainWindowVars>>

\* An argument of a UsesUIBackend constructor call:
\*   kind     "backend": an lvalue naming the live UI backend ref, whose
\*            static type is static: "Interface" for UIBackend<Subject>,
\*            otherwise the derived type of the object;
\*            "selector": a selector object carrying the type carries,
\*            isConst for the constexpr object UIBackendSelector<T>, not
\*            isConst for a temporary std::common_type<T>{};
\*            "int": any other argument
UIArg(kind, static, ref, carries, isConst) ==
    [kind |-> kind, static |-> static, ref |-> ref, carries |-> carries,
     isConst |-> isConst]

BackendArg(static, b) == UIArg("backend", static, b, "none", FALSE)
SelectorArg(T, isConst) == UIArg("selector", "none", Nil, T, isConst)
IntArg == UIArg("int", "int", Nil, "none", FALSE)

\* typename std::remove_reference_t<ImplSelector>::type names a type
HasNestedType(a) == a.kind = "selector"

\* IsUIBackendSelector<ImplSelector>: remove_reference_t<ImplSelector> is
\* the type of the object UIBackendSelector<...>, which is const.
IsUIBackendSelector(a) == HasNestedType(a) /\ a.isConst

\* The selector constructor's default template argument instantiates the
\* variable template IsUIBackendSelector for the first argument's type; its
\* initialiser is ill-formed for a type without ::type.
ConstraintIllFormed(args) == Len(args) >= 1 /\ ~HasNestedType(args[1])

\* explicit UsesUIBackend(UIBackend<Subject>& backend)
ViableReference(args) == Len(args) = 1 /\ args[1].kind = "backend"

\* explicit UsesUIBackend(ImplSelector&& selector, As&&... args)
ViableSelector(args) == Len(args) >= 1 /\ IsUIBackendSelector(args[1])

\* Binding UIBackend<Subject>& to the argument is the identity conversion
\* for an lvalue of the interface type and a derived-to-base conversion
\* for an lvalue of a derived type; As&&... binds to everything exactly.
ReferenceBindsExactly(args) == args[1].static = "Interface"

\* Overload resolution among the three constructors.  The selector
\* constructor is more specialised than As&&...; the reference constructor
\* wins against As&&... only on a tie, as the non-template.
Resolve(args) ==
    IF ViableSelector(args) THEN "Selector"
    ELSE IF ViableReference(args) /\ ReferenceBindsExactly(args) THEN "Reference"
    ELSE "Args"

\* UsesUIBackend{UIBackendSelector<UIBackendDefault<Subject>>, args...}
ArgsTarget(args) == <<SelectorArg(DefaultBackend, TRUE)>> \o args

\* static_assert(is_base_of<UIBackend<Subject>, ImplSelector::type>)
UIStaticAssert(args) == ImplementsInterface(args[1].carries)

\* std::make_unique<T>(args...): T's default constructor, a constructor
\* taking the forwarded values, or T's copy constructor for one lvalue of
\* type T.
Constructible(T, rest) ==
    \/ \A i \in 1 .. Len(rest) : rest[i].kind = "int"
    \/ Len(rest) = 1 /\ rest[1].kind = "backend" /\ rest[1].static = T

UIFreeIds == { b \in BackendIds : uiHeap[b].state = "unused" }
NewUIId == CHOOSE b \in UIFreeIds : \A o \in UIFreeIds : b <= o

\* The constructor calls considered.
UICalls ==
    {<<>>, <<IntArg>>}
    \cup UNION { { <<BackendArg(st, b)>> : st \in {"Interface", uiHeap[b].type} } :
                     b \in uiHolds }
    \cup { <<BackendArg(uiHeap[b].type, b), IntArg>> : b \in uiHolds }
    \cup { <<SelectorArg(T, c)>> : T \in BackendTypes, c \in BOOLEAN }
    \cup { <<SelectorArg("Mock", TRUE), IntArg>> }

\* The caller creates a UI backend of type T.
UICallerNew(T) ==
    /\ uiPc \in {"idle", "usable"}
    /\ UIFreeIds # {}
    /\ uiHeap' = [uiHeap EXCEPT ![NewUIId] =
                    [state |-> "alive", type |-> T, owner |-> "caller", from |-> Nil]]
    /\ uiHolds' = uiHolds \cup {NewUIId}
    /\ UNCHANGED <<uiPc, uiCall, uiCur, uiChain, uiPriv>>
    /\ UNCHANGED nonUIBackendVars

\* The caller deletes a UI backend that no private implementation references.
UICallerDelete(b) ==
    /\ uiPc \in {"idle", "usable"}
    /\ b \in uiHolds
    /\ uiPriv.uiHandle # b
    /\ uiHeap' = [uiHeap EXCEPT ![b].state = "freed"]
    /\ uiHolds' = uiHolds \ {b}
    /\ UNCHANGED <<uiPc, uiCall, uiCur, uiChain, uiPriv>>
    /\ UNCHANGED nonUIBackendVars

\* A facade deriving from UsesUIBackend is declared with arguments c.
UIConstruct(c) ==
    /\ uiPc' = "select"
    /\ uiCall' = c
    /\ uiCur' = c
    /\ uiChain' = <<>>
    /\ UNCHANGED <<uiPriv, uiHeap, uiHolds>>
    /\ UNCHANGED nonUIBackendVars

UIDeclareFacade == uiPc = "idle" /\ UIFreeIds # {} /\ \E c \in UICalls : UIConstruct(c)

\* The ill-formed initialiser of IsUIBackendSelector is outside the
\* immediate context of the substitution: the build may stop here ...
UIHardError ==
    /\ uiPc = "select"
    /\ uiChain = <<>>
    /\ ConstraintIllFormed(uiCur)
    /\ uiPc' = "rejected"
    /\ UNCHANGED <<uiCall, uiCur, uiChain, uiPriv, uiHeap, uiHolds>>
    /\ UNCHANGED nonUIBackendVars

\* ... or drop the selector constructor from the candidates.  The
\* args-forwarding constructor delegates to the selector constructor.
UIDelegate ==
    /\ uiPc = "select"
    /\ Resolve(uiCur) = "Args"
    /\ uiCur' = ArgsTarget(uiCur)
    /\ uiChain' = Append(uiChain, "Args")
    /\ UNCHANGED <<uiPc, uiCall, uiPriv, uiHeap, uiHolds>>
    /\ UNCHANGED nonUIBackendVars

\* What new PrivateWithUIBackend{...} needs in order to build.
UIWellFormed(args) ==
    Resolve(args) = "Selector" =>
        /\ UIStaticAssert(args)
        /\ Constructible(args[1].carries, Tail(args))

UIReject ==
    /\ uiPc = "select"
    /\ Resolve(uiCur) # "Args"
    /\ ~UIWellFormed(uiCur)
    /\ uiPc' = "rejected"
    /\ UNCHANGED <<uiCall, uiCur, uiChain, uiPriv, uiHeap, uiHolds>>
    /\ UNCHANGED nonUIBackendVars

\* The reference or the selector constructor is entered.
UIEnter ==
    /\ uiPc = "select"
    /\ Resolve(uiCur) # "Args"
    /\ UIWellFormed(uiCur)
    /\ uiChain' = Append(uiChain, Resolve(uiCur))
    /\ uiPc' = "new_priv"
    /\ UNCHANGED <<uiCall, uiCur, uiPriv, uiHeap, uiHolds>>
    /\ UNCHANGED nonUIBackendVars

\* The backend make_unique copies, if it is given one.
CopiedFrom(rest) == IF Len(rest) = 1 /\ rest[1].kind = "backend" THEN rest[1].ref ELSE Nil

\* d_ptr{new PrivateWithUIBackend{...}}: the constructor of WithUIBackend
\* that the constructor entered calls.
UINewPrivate ==
    /\ uiPc = "new_priv"
    /\ IF uiChain[Len(uiChain)] = "Selector"
       THEN /\ uiHeap' = [uiHeap EXCEPT ![NewUIId] =
                            [state |-> "alive", type |-> uiCur[1].carries,
                             owner |-> "uiRep", from |-> CopiedFrom(Tail(uiCur))]]
            /\ uiPriv' = [uiRep |-> NewUIId, uiHandle |-> NewUIId, q_ptr |-> 1]
       ELSE /\ uiHeap' = uiHeap
            /\ uiPriv' = [uiRep |-> Nil, uiHandle |-> uiCur[1].ref, q_ptr |-> 1]
    /\ uiPc' = "usable"
    /\ UNCHANGED <<uiCall, uiCur, uiChain, uiHolds>>
    /\ UNCHANGED nonUIBackendVars

\* The facade is destroyed: QScopedPointer deletes the private
\* implementation, whose uiRep deletes the backend it owns.
UIDestroy ==
    /\ uiPc = "usable"
    /\ uiHeap' = IF uiPriv.uiRep \in BackendIds
                 THEN [uiHeap EXCEPT ![uiPriv.uiRep].state = "freed"]
                 ELSE uiHeap
    /\ uiPriv' = NoUIPriv
    /\ uiPc' = "idle"
    /\ uiCall' = <<>>
    /\ uiCur' = <<>>
    /\ uiChain' = <<>>
    /\ UNCHANGED uiHolds
    /\ UNCHANGED nonUIBackendVars

\* The declaration that did not build is given up.
UIAbandon ==
    /\ uiPc = "rejected"
    /\ uiPc' = "idle"
    /\ uiCall' = <<>>
    /\ uiCur' = <<>>
    /\ uiChain' = <<>>
    /\ UNCHANGED <<uiPriv, uiHeap, uiHolds>>
    /\ UNCHANGED nonUIBackendVars

NextUIBackend ==
    \/ \E T \in {"Default", "Mock"} : UICallerNew(T)
    \/ \E b \in BackendIds : UICallerDelete(b)
    \/ UIDeclareFacade
    \/ UIHardError
    \/ UIDelegate
    \/ UIReject
    \/ UIEnter
    \/ UINewPrivate
    \/ UIDestroy
    \/ UIAbandon

SpecUIBackend == Init /\ [][NextUIBackend]_vars

\* ================================================================ claims
Constructed == pc = "usable"
Owned(p) == p.rep # Nil /\ p.rep # Indet
BorrowingForms == {"NonOwning", "InitOnly"}
TwoActionForms == {"Actions", "Explicit"}

\* C1: when a facade is constructed through the Actions or the Explicit form
\* with the impl-targeted action B (X = 1) and the facade-targeted action A
\* (Y = X + 1), B runs while the private implementation is still being
\* constructed (the facade's d_ptr is not set yet), B has completed before A
\* starts, no other order occurs, and the constructed facade has Y = 2.
C1_ImplActionThenFacadeAction ==
    (call.form \in TwoActionForms /\ call.init = ReadX /\ call.initMember = SetX) =>
        /\ order \in {<<>>, <<"impl">>, <<"impl", "facade">>}
        /\ pc = "d_ptr" => (order = <<"impl">> /\ facade.d_ptr = Indet /\ priv.X = 1)
        /\ pc = "q_init" => (order = <<"impl">> /\ priv.X = 1 /\ facade.Y = 0)
        /\ Constructed => (order = <<"impl", "facade">> /\ priv.X = 1 /\ facade.Y = 2)

C1_Witness ==
    /\ Constructed
    /\ call.form = "Actions" /\ call.init = ReadX /\ call.initMember = SetX
    /\ order = <<"impl", "facade">>
    /\ facade.Y = 2

\* C2: a backend the caller passed in by reference is never deallocated by
\* the facade and stays usable by the caller after the facade is destroyed;
\* a backend created internally is deallocated exactly once when the facade
\* is destroyed: it is alive exactly while its private implementation holds
\* it (no leak) and no backend is ever released twice (no double free).
C2_BorrowedSurvivesOwnedFreedOnce ==
    /\ \A b \in callerHolds : heap[b].state = "alive" /\ heap[b].frees = 0
    /\ \A b \in BackendIds : heap[b].frees <= 1
    /\ \A b \in BackendIds :
         heap[b].owner = "rep" =>
            /\ heap[b].state = "alive" <=> (priv.state # "none" /\ priv.rep = b)
            /\ heap[b].state = "freed" => heap[b].frees = 1
    /\ (pc = "q_gone" /\ call.form \in BorrowingForms) =>
            /\ call.ref \in callerHolds
            /\ heap[call.ref].state = "alive"
    /\ fault = "none"

C2_Witness ==
    /\ pc = "q_gone"
    /\ call.form = "NonOwning"
    /\ heap[call.ref].state = "alive"
    /\ \E b \in BackendIds : heap[b].owner = "rep" /\ heap[b].frees = 1

\* C3: the Selector form, given a selector that names a backend type
\* implementing the Subject's interface, whether a temporary or the
\* predefined constant selector object, always builds, and the constructed
\* facade owns a backend of exactly the named type, created with exactly the
\* extra arguments of the call in their order.
C3_SelectorFormBuildsNamedType ==
    (call.form = "Selector" /\ call.t.shape = "selector"
                            /\ ImplementsInterface(call.t.carries)) =>
        /\ pc # "rejected"
        /\ Constructed =>
              /\ Owned(priv)
              /\ priv.handle = priv.rep
              /\ heap[priv.rep].type = call.t.carries
              /\ heap[priv.rep].args = call.args
              /\ heap[priv.rep].owner = "rep"

\* C4: a facade constructed through a form that names neither a selector
\* nor a backend reference (Default, ActionQ, ActionD, Actions, Args) has a
\* non-null backend handle to a backend it owns, of the Subject's default
\* backend type, created with the call's extra arguments unchanged (none for
\* the Default form).
DefaultingForms == {"Default", "ActionQ", "ActionD", "Actions", "Args"}

C4_DefaultingFormsOwnDefaultBackend ==
    (Constructed /\ call.form \in DefaultingForms) =>
        /\ priv.handle \in BackendIds
        /\ Owned(priv)
        /\ priv.handle = priv.rep
        /\ heap[priv.handle].state = "alive"
        /\ heap[priv.handle].type = DefaultBackend
        /\ heap[priv.handle].owner = "rep"
        /\ heap[priv.handle].args = call.args
        /\ call.form = "Default" => heap[priv.handle].args = <<>>

C4_Witness ==
    /\ Constructed
    /\ call.form = "Args"
    /\ call.args = <<7, 42>>
    /\ heap[priv.handle].type = DefaultBackend
    /\ heap[priv.handle].args = <<7, 42>>

\* C5: once the construction of a private implementation has completed,
\* through whichever form, its handle is non-null and refers to one live
\* backend, rep is either empty or that same backend, and the assertion of
\* backend() has not failed and would not fail.
C5_HandleBoundAfterConstruction ==
    priv.state = "live" =>
        /\ priv.handle # Nil
        /\ priv.handle \in BackendIds
        /\ heap[priv.handle].state = "alive"
        /\ priv.rep \in {Nil, priv.handle}
        /\ backendFault(priv) = "none"
        /\ fault = "none"

C5_Witness ==
    /\ Constructed
    /\ call.form = "NonOwning"
    /\ priv.state = "live"
    /\ priv.handle = call.ref
    /\ priv.rep = Nil

\* C6: whether the private implementation owns its backend follows from the
\* construction form (the two reference forms borrow, all others own), and
\* from the moment rep and handle are initialised until destruction begins
\* no step changes rep or handle.
Bound == pc \in {"q_ptr", "d_init", "d_ptr", "q_init", "usable"}

C6_ByForm ==
    Bound => /\ Owned(priv) <=> call.form \notin BorrowingForms
             /\ Owned(priv) => priv.handle = priv.rep
             /\ ~Owned(priv) => priv.handle = call.ref

C6_Step ==
    (Bound /\ Bound') => (priv'.rep = priv.rep /\ priv'.handle = priv.handle)

C6_OwnershipFixed == [](C6_ByForm) /\ [][C6_Step]_vars

C6_Witness ==
    /\ Constructed
    /\ call.form = "InitOnly"
    /\ ~Owned(priv)
    /\ priv.handle \in callerHolds

\* C7: from the moment q_ptr is initialised the private implementation's
\* q_ptr is the facade that is creating or has created it, it is never null,
\* no step changes it, and that facade exists for as long as the private
\* implementation does.
QPtrSet == pc \in {"d_init", "d_ptr", "q_init", "usable", "del_rep", "free_priv"}

C7_State ==
    /\ QPtrSet => (priv.q_ptr # Nil /\ priv.q_ptr = facade.id /\ priv.q_ptr = nFacades + 1)
    /\ priv.state # "none" => facade.id # Nil

C7_Step == (QPtrSet /\ QPtrSet') => priv'.q_ptr = priv.q_ptr

C7_BackReferenceValid == [](C7_State) /\ [][C7_Step]_vars

C7_Witness ==
    /\ priv.state = "live"
    /\ nFacades = 1
    /\ priv.q_ptr = 2
    /\ facade.id = 2

\* C8: lifetimes are nested.  A private implementation exists only while
\* its facade does, it comes into being only inside the facade's constructor
\* and is gone before the facade is; an owned backend is alive only while
\* the private implementation that created it exists, and it comes into
\* being only inside that private implementation's constructor.
C8_State ==
    /\ priv.state # "none" => (facade.id # Nil /\ priv.id = facade.id)
    /\ pc \in {"idle", "q_gone", "rejected", "unwind", "failed"} => priv.state = "none"
    /\ pc = "idle" => facade.id = Nil
    /\ Constructed => priv.state = "live"
    /\ \A b \in BackendIds :
          (heap[b].owner = "rep" /\ heap[b].state = "alive") =>
              (priv.state # "none" /\ priv.rep = b)

C8_Step ==
    /\ (priv.state = "none" /\ priv'.state # "none") => (pc = "new_priv" /\ facade.id # Nil)
    /\ (facade.id # Nil /\ facade'.id = Nil) => priv.state = "none"
    /\ \A b \in BackendIds :
          (heap[b].state = "unused" /\ heap'[b].owner = "rep") =>
              (pc = "rep" /\ priv.state = "constructing")
    /\ (priv.state # "none" /\ priv'.state = "none" /\ pc # "rep") =>
          \A b \in BackendIds : heap[b].owner = "rep" => heap[b].state = "freed"

C8_NestedLifetimes == [](C8_State) /\ [][C8_Step]_vars

C8_Witness ==
    /\ pc = "q_gone"
    /\ call.form = "Selector"
    /\ priv.state = "none"
    /\ facade.id # Nil
    /\ \E b \in BackendIds : heap[b].owner = "rep" /\ heap[b].state = "freed"
    /\ \A b \in BackendIds : heap[b].owner = "rep" => heap[b].state = "freed"

\* C9: the init-action test is false for every argument type of selector-tag
\* shape, also when the type is callable with the target, and it is true
\* exactly for the other types that are callable with the target; so no
\* stored init action is ever a selector.
TargetOf(form) == IF form = "ActionQ" THEN "Derived" ELSE "Private"

C9_SelectorNeverAnAction ==
    /\ (pc = "select" /\ cur.form \in {"ActionQ", "ActionD"}) =>
          /\ cur.t.shape = "selector" => ~is_init_v(TargetOf(cur.form), cur.t)
          /\ is_init_v(TargetOf(cur.form), cur.t) <=>
                (cur.t.shape # "selector" /\ is_invocable(cur.t, TargetOf(cur.form)))
    /\ facade.init.shape # "selector"
    /\ priv.init.shape # "selector"

\* C10 as stated: every form other than Explicit ends in the Explicit
\* constructor.
Entered == pc \notin {"idle", "select", "rejected"}

C10_AllFormsReachExplicit ==
    (Entered /\ call.form # "Explicit") => chain[Len(chain)] = "Explicit"

\* C10 as amended: Default, ActionQ, ActionD, Selector, Actions and Args
\* delegate in one step to the Explicit constructor, with the no-op action
\* in place of each action the form does not take, the default selector in
\* place of the selector unless the form takes one, and the extra arguments
\* unchanged; Non-owning delegates to Init-only with the no-op action and
\* the same backend reference; Init-only and Explicit delegate to nobody.
ExplicitEquivalent(c) ==
    Call("Explicit", NoDesc,
         IF c.form = "ActionQ" THEN c.t ELSE IF c.form = "Actions" THEN c.init ELSE NoopQ,
         IF c.form = "ActionD" THEN c.t ELSE IF c.form = "Actions" THEN c.initMember ELSE NoopD,
         IF c.form = "Selector" THEN c.t ELSE Sel(DefaultBackend, FALSE),
         Nil,
         IF c.form = "Default" THEN <<>> ELSE c.args)

C10_DelegationTargets ==
    Entered =>
        /\ call.form \in (Forms \ (BorrowingForms \cup {"Explicit"})) =>
              (chain = <<call.form, "Explicit">> /\ cur = ExplicitEquivalent(call))
        /\ call.form = "NonOwning" =>
              /\ chain = <<"NonOwning", "InitOnly">>
              /\ cur = Call("InitOnly", NoDesc, NoopQ, NoDesc, NoDesc, call.ref, <<>>)
        /\ call.form \in {"InitOnly", "Explicit"} => (chain = <<call.form>> /\ cur = call)

C10_Witness ==
    /\ Constructed
    /\ call.form = "ActionD"
    /\ call.t = SetX
    /\ chain = <<"ActionD", "Explicit">>
    /\ cur.initMember = SetX
    /\ priv.X = 1

\* C11: when the construction of an owned backend fails while a facade is
\* being constructed, nothing of it remains afterwards: no private
\* implementation, no backend owned by one, no facade state, and neither
\* init action has run.
C11_FailedConstructionLeavesNothing ==
    pc \in {"unwind", "failed"} =>
        /\ priv = NoPriv
        /\ pc = "failed" => facade = NoFacade
        /\ \A b \in BackendIds : heap[b].owner = "rep" => heap[b].state # "alive"
        /\ order = <<>>

C11_Witness ==
    /\ pc = "failed"
    /\ call.form = "Actions"
    /\ call.init = ReadX
    /\ call.initMember = SetX
    /\ priv = NoPriv
    /\ facade = NoFacade

\* C17: a call whose selector carries a type that does not implement the
\* Subject's interface, and any call of a facade class whose private type
\* does not derive from WithBackend, does not build: no constructor is ever
\* entered for it; and no private implementation ever holds, and no "with"
\* object ever creates, a backend that does not implement the interface.
SelectsForeignType(c) ==
    \/ c.form = "Selector" /\ c.t.shape = "selector" /\ ~ImplementsInterface(c.t.carries)
    \/ c.form = "Explicit" /\ c.selector.shape = "selector"
           /\ ~ImplementsInterface(c.selector.carries)

C17_MismatchedTypesRejected ==
    /\ (call # NoCall /\ (SelectsForeignType(call) \/ ~call.derivedPrivate)) =>
           pc \in {"select", "rejected"}
    /\ \A b \in BackendIds :
           heap[b].state = "alive" => ImplementsInterface(heap[b].type)
    /\ (priv.state # "none" /\ priv.handle \in BackendIds
           /\ heap[priv.handle].state = "alive") =>
           ImplementsInterface(heap[priv.handle].type)

C17_Witness ==
    /\ pc = "rejected"
    /\ call.form = "Explicit"
    /\ call.init = ReadX
    /\ call.initMember = SetX
    /\ call.selector = Sel("Alien", FALSE)
    /\ call.derivedPrivate
    /\ priv = NoPriv

C17_WitnessPrivate ==
    /\ pc = "rejected"
    /\ call.form = "Default"
    /\ ~call.derivedPrivate

\* C19: for every construction form, when the impl-targeted init action is
\* about to run the private implementation's handle is bound to a live
\* backend (backend() does not assert) and its q_ptr is the facade; when the
\* facade-targeted init action is about to run the facade's d_ptr is not
\* null and is the fully constructed private implementation, on which the
\* impl-targeted action has already run.
C19_InitActionsSeeBoundObjects ==
    /\ pc = "d_init" =>
          /\ priv.handle \in BackendIds
          /\ backendFault(priv) = "none"
          /\ priv.q_ptr = facade.id
          /\ facade.id # Nil
          /\ order = <<>>
    /\ pc = "q_init" =>
          /\ facade.d_ptr # Nil
          /\ facade.d_ptr # Indet
          /\ implLive(facade)
          /\ backendFault(priv) = "none"
          /\ order = <<"impl">>

C19_Witness ==
    /\ pc = "q_init"
    /\ call.form = "InitOnly"
    /\ call.init = ReadX
    /\ implLive(facade)
    /\ priv.handle = call.ref
    /\ priv.q_ptr = facade.id

\* ------------------------------------------------- main window: claims
\* The load action that ran last was given a file that does not exist or
\* cannot be opened for reading.
LoadFailed ==
    /\ last.op = "load"
    /\ ~Exists(disk, last.fileName) \/ ~OpensForReading(disk, last.fileName)

\* C12: when the load action is given a file that does not exist or cannot
\* be opened for reading, an error is reported, no scene is loaded, and the
\* scene holds the nodes it held before the load action started.
C12_FailedLoadLeavesScene ==
    LoadFailed =>
        /\ last.errors # <<>>
        /\ ~last.loaded
        /\ saveToMemory(graphScene) = last.before

\* C13: a load whose file is missing or cannot be opened, and a save whose
\* file cannot be opened for writing, each report an error before the
\* action returns.
C13_IoFailuresReported ==
    /\ LoadFailed => last.errors # <<>>
    /\ (last.op = "save" /\ last.fileName # <<>> /\ ~OpensForWriting(last.target)) =>
          last.errors # <<>>

\* C14: on a close event the application quits only if the answer is Yes;
\* for any other answer the event is ignored, quit is not called, no error
\* is raised and nothing of the application's state changes.
C14_State ==
    /\ app = "quit" => (last.op = "close" /\ last.reply = "Yes" /\ ~last.ignored)
    /\ (last.op = "close" /\ last.reply = "Yes") => app = "quit"
    /\ (last.op = "close" /\ last.reply # "Yes") =>
          (last.ignored /\ app = "running" /\ last.errors = <<>>)

C14_Step ==
    /\ (app' = "quit" /\ app # "quit") => (last'.op = "close" /\ last'.reply = "Yes")
    /\ (last'.op = "close" /\ last'.reply # "Yes") =>
          UNCHANGED <<graphScene, disk, enabled, lastTrigger, app>>

C14_QuitOnlyOnYes == [](C14_State) /\ [][C14_Step]_vars

C14_Witness ==
    /\ last.op = "close"
    /\ last.reply = "NoButton"
    /\ last.ignored
    /\ app = "running"
    /\ \E n \in NodeIds : graphScene[n].kind # "none"

\* The name ends in ".cds", compared case-insensitively.
EndsInCds(name) ==
    LET n == Len(name)
    IN  /\ n >= 4
        /\ name[n - 3] = "."
        /\ name[n - 2] \in {"c", "C"}
        /\ name[n - 1] \in {"d", "D"}
        /\ name[n] \in {"s", "S"}

NamedForSave(fileName) == IF EndsInCds(fileName) THEN fileName ELSE fileName \o DotCds

\* C15 as stated: for every non-empty file name chosen in the save action
\* the serialized scene is written to a file whose name ends in ".cds"
\* (case-insensitively), the extension being appended exactly when the
\* chosen name does not end with it; for an empty name nothing is written
\* and an error is reported.
C15_SaveWritesCdsFile ==
    last.op = "save" =>
        IF last.fileName # <<>>
        THEN /\ last.wrote
             /\ EndsInCds(last.target)
             /\ last.target = NamedForSave(last.fileName)
             /\ disk[last.target].scene = saveToMemory(graphScene)
        ELSE ~last.wrote /\ last.errors # <<>>

\* C15 as amended: for every non-empty file name chosen in the save action
\* the file opened is named by the chosen name, with ".cds" appended
\* exactly when the chosen name does not end in it (case-insensitively);
\* the serialized scene is written to that file if it can be opened for
\* writing and nothing is written otherwise; for an empty name nothing is
\* written and an error is reported.
C15_State ==
    last.op = "save" =>
        IF last.fileName # <<>>
        THEN /\ EndsInCds(last.target)
             /\ last.target = NamedForSave(last.fileName)
             /\ last.wrote <=> OpensForWriting(last.target)
             /\ last.wrote =>
                   disk[last.target] = File(TRUE, TRUE, TRUE, saveToMemory(graphScene))
        ELSE ~last.wrote /\ last.errors = <<"File name empty">>

C15_Step ==
    last'.op = "save" =>
        /\ ~last'.wrote => disk' = disk
        /\ last'.wrote => \A f \in Files \ {last'.target} : disk'[f] = disk[f]
        /\ graphScene' = graphScene

C15_SaveNamesCdsFile == [](C15_State) /\ [][C15_Step]_vars

C15_Witness ==
    /\ last.op = "save"
    /\ last.fileName = NameA
    /\ last.target = NameACds
    /\ last.wrote
    /\ disk[NameACds].scene = <<"sender">>

\* C16: for every node creation, deletion and double-click exactly one
\* handler runs, the one for the node's model (raw view, raw sender or
\* device); for a device model the three handlers change nothing; for view
\* and sender models creation adds the main widget to the MDI area,
\* deletion closes the widget's parent window if it has one, and
\* double-click shows the parent window if there is one and the widget
\* itself otherwise.
HandlerFor(kind) == IF kind = "view" THEN 1 ELSE IF kind = "sender" THEN 2 ELSE 3

C16_State ==
    /\ last.op \in {"created", "deleted", "clicked"} =>
          last.handlers = <<HandlerFor(last.kind)>>
    /\ (last.op = "load" /\ last.loaded) =>
          \A n \in NodeIds :
              graphScene[n].kind \in {"view", "sender"} =>
                  (graphScene[n].parent /\ graphScene[n].docked)

C16_Step ==
    LET n == last'.node
        others == \A m \in NodeIds \ {n} : graphScene'[m] = graphScene[m]
    IN  /\ last'.op = "created" =>
              /\ others
              /\ graphScene[n].kind = "none"
              /\ graphScene'[n].kind = last'.kind
              /\ last'.kind = "device" =>
                    graphScene'[n] = [NoNode EXCEPT !.kind = "device"]
              /\ last'.kind \in {"view", "sender"} =>
                    (graphScene'[n].parent /\ graphScene'[n].docked)
        /\ last'.op = "deleted" =>
              /\ others
              /\ graphScene[n].kind = last'.kind
              /\ last'.closed <=> (last'.kind # "device" /\ graphScene[n].parent)
        /\ last'.op = "clicked" =>
              /\ others
              /\ graphScene[n].kind = last'.kind
              /\ last'.kind = "device" => graphScene'[n] = graphScene[n]
              /\ last'.kind \in {"view", "sender"} =>
                    graphScene'[n] = IF graphScene[n].parent
                                     THEN [graphScene[n] EXCEPT !.sub = "shown"]
                                     ELSE [graphScene[n] EXCEPT !.shown = TRUE]
        /\ last'.op \in {"created", "deleted", "clicked"} =>
              UNCHANGED <<disk, enabled, lastTrigger, app>>

C16_HandlerMatchesModel == [](C16_State) /\ [][C16_Step]_vars

C16_Witness ==
    /\ last.op = "clicked"
    /\ last.kind = "sender"
    /\ last.handlers = <<2>>
    /\ graphScene[last.node].parent
    /\ graphScene[last.node].sub = "shown"
    /\ ~graphScene[last.node].shown

\* C20: after the start action is triggered with checked = false, start is
\* disabled and stop is enabled; after the stop action is triggered with
\* checked = false, stop is disabled and start is enabled; so after any
\* such trigger exactly one of the two is enabled, the one not triggered
\* last, whatever other handlers have run since.
C20_ExactlyOneToolbarActionEnabled ==
    /\ (lastTrigger.action = "actionstart" /\ ~lastTrigger.checked) =>
          (~enabled["actionstart"] /\ enabled["actionstop"])
    /\ (lastTrigger.action = "actionstop" /\ ~lastTrigger.checked) =>
          (~enabled["actionstop"] /\ enabled["actionstart"])
    /\ (lastTrigger.action # "none" /\ ~lastTrigger.checked) =>
          enabled["actionstart"] # enabled["actionstop"]

C20_Witness ==
    /\ lastTrigger = [action |-> "actionstop", checked |-> FALSE]
    /\ last.op = "created"
    /\ enabled["actionstart"]
    /\ ~enabled["actionstop"]

\* C21: handleDock toggles a component: if its parent is a sub-window of
\* the MDI area the component is taken out of the area, shown as a window
\* of its own and its former sub-window closed; otherwise it is added to
\* the area and shown there.  After any sequence of dockUndock signals the
\* component is docked iff the number of signals since it was added is
\* even, and it is never both in the MDI area and shown as a window of its
\* own.
HasWidget(w) == w.kind \in {"view", "sender"}

C21_State ==
    \A n \in NodeIds :
        HasWidget(graphScene[n]) =>
            /\ graphScene[n].docked <=> graphScene[n].dockSignals = 0
            /\ graphScene[n].docked <=> graphScene[n].parent
            /\ ~(graphScene[n].docked /\ graphScene[n].shown)

C21_Step ==
    last'.op = "dock" =>
        LET n == last'.node
            w == graphScene[n]
            v == graphScene'[n]
        IN  /\ HasWidget(w)
            /\ v.kind = w.kind
            /\ \A m \in NodeIds \ {n} : graphScene'[m] = graphScene[m]
            /\ IF w.parent /\ w.docked
               THEN ~v.docked /\ ~v.parent /\ v.shown /\ v.sub = "closed"
               ELSE v.docked /\ v.parent /\ ~v.shown /\ v.sub = "shown"
            /\ UNCHANGED <<disk, enabled, lastTrigger, app>>

C21_DockToggles == [](C21_State) /\ [][C21_Step]_vars

C21_Witness ==
    /\ last.op = "dock"
    /\ graphScene[last.node].kind = "view"
    /\ graphScene[last.node].docked
    /\ graphScene[last.node].dockSignals = 0
    /\ graphScene[last.node].sub = "shown"
    /\ ~graphScene[last.node].shown

C21_WitnessUndocked ==
    /\ last.op = "clicked"
    /\ graphScene[last.node].kind = "sender"
    /\ ~graphScene[last.node].docked
    /\ graphScene[last.node].dockSignals = 1
    /\ graphScene[last.node].shown
    /\ graphScene[last.node].sub = "closed"

\* --------------------------------------------------- UI backend: claims
\* C18: constructing a UsesUIBackend facade with one argument that names a
\* live UI backend, of the interface type or of a type derived from it,
\* enters the reference constructor and no other: the backend is borrowed
\* (uiHandle refers to it, uiRep owns nothing) and no backend is
\* constructed from it.
SingleBackendArgument == Len(uiCall) = 1 /\ uiCall[1].kind = "backend"

C18_BackendArgumentIsBorrowed ==
    (SingleBackendArgument /\ uiPc # "select") =>
        /\ uiPc # "rejected"
        /\ uiChain = <<"Reference">>
        /\ uiPc = "usable" =>
              /\ uiPriv.uiRep = Nil
              /\ uiPriv.uiHandle = uiCall[1].ref
              /\ \A b \in BackendIds : uiHeap[b].from # uiCall[1].ref

TypeOK ==
    /\ pc \in {"idle", "select", "rejected", "failed", "unwind", "new_priv", "rep", "handle",
               "q_ptr", "d_init", "d_ptr", "q_init", "usable", "del_rep",
               "free_priv", "q_gone"}
    /\ nFacades \in 0 .. MaxFacades
    /\ callerHolds \subseteq BackendIds
    /\ fault \in {"none", "assert", "dangling"}
    /\ app \in {"none", "running", "quit", "crashed"}
    /\ enabled \in [{"actionstart", "actionstop"} -> BOOLEAN]
    /\ \A n \in NodeIds : graphScene[n].kind \in ModelKinds \cup {"none"}
    /\ uiPc \in {"idle", "select", "rejected", "new_priv", "usable"}
    /\ uiHolds \subseteq BackendIds
====
